---------------------------- MODULE Spec2Model ----------------------------
(***************************************************************************)
(* Model of claude-summary.py: the SessionStart hook that enqueues the     *)
(* previous transcript, the flock-guarded queue drain, and the Monday      *)
(* maintenance (weekly merge, cleanups, monthly archive).                  *)
(*                                                                         *)
(* Each process is one invocation of the script (`hook` or `maintenance`). *)
(* The filesystem under BASE_DIR is the shared state.  Every action is one *)
(* step of the code between two points where another process may run.      *)
(*                                                                         *)
(* Timing: an invocation is short (the only blocking call is the           *)
(* summarizer, bounded by timeout=120), so the calendar day changes only   *)
(* between invocations; the second counter may advance at any point.       *)
(***************************************************************************)
EXTENDS Integers, Sequences, FiniteSets, TLC

(***************************************************************************)
(* Bounds of the model                                                     *)
(***************************************************************************)
NumProcs == 2        \* concurrent invocations
MaxDays == 8         \* days after the first day of the model
MaxSec == 1          \* seconds that may elapse within one day
MaxRuns == 3         \* invocations started plus faults, in one behaviour
MaxFaults == 1       \* I/O errors and kills injected in one behaviour

(***************************************************************************)
(* Program constants                                                       *)
(***************************************************************************)
MIN_MESSAGES == 4
DaySeconds == 86400
WeekDays == 7

Proc == 1..NumProcs
None == "none"

\* Session identifiers: <<first 8 characters, remainder>>.
\* (numbers stand for the characters, so that file names can be ordered)
Sessions == {<<1, 1>>, <<2, 1>>}
\* Transcripts, named by the session that wrote them.
SrcA == <<1, 1>>
SrcC == <<3, 1>>
Src == {SrcA, SrcC}

(***************************************************************************)
(* Calendar: a date is its ordinal day in 2025 (1 = January 1st, a         *)
(* Wednesday).  The model starts on Sunday 2025-05-25.                     *)
(***************************************************************************)
FirstDay == 31 + 28 + 31 + 30 + 25
LastDay == FirstDay + MaxDays

MonthLen == <<31, 28, 31, 30, 31, 30, 31, 31, 30, 31, 30, 31>>

RECURSIVE MonthDay(_, _)
\* <<month, day>> of the ordinal `ord`, searching from month m
MonthDay(m, ord) ==
    IF ord <= MonthLen[m] THEN <<m, ord>> ELSE MonthDay(m + 1, ord - MonthLen[m])

\* date.isoformat(): the <<year, month, day>> a file name carries
IsoFormat(d) == <<2025>> \o MonthDay(1, d)

RECURSIVE DaysBefore(_)
DaysBefore(m) == IF m = 1 THEN 0 ELSE MonthLen[m - 1] + DaysBefore(m - 1)

\* date.fromisoformat()
FromIso(iso) == DaysBefore(iso[2]) + iso[3]

\* date.weekday(): Monday is 0
Weekday(d) == (d + 1) % 7

\* strftime("%Y-%m")
YearMonth(d) == <<2025, MonthDay(1, d)[1]>>

\* lexicographic order of file names made of numbers
RECURSIVE TupleLess(_, _)
TupleLess(a, b) ==
    IF a = <<>> \/ b = <<>> THEN a = <<>> /\ b # <<>>
    ELSE IF a[1] # b[1] THEN a[1] < b[1]
    ELSE TupleLess(Tail(a), Tail(b))

RECURSIVE Sorted(_)
\* sorted(os.listdir(...)) of a set of tuple names
Sorted(S) ==
    IF S = {} THEN <<>>
    ELSE LET m == CHOOSE x \in S : \A y \in S \ {x} : TupleLess(x, y)
         IN  <<m>> \o Sorted(S \ {m})

RECURSIVE Concat(_)
Concat(ss) == IF ss = <<>> THEN <<>> ELSE Head(ss) \o Concat(Tail(ss))

Range(f) == {f[x] : x \in DOMAIN f}

\* a function with key k added or replaced / removed
Put(f, k, v) == [x \in DOMAIN f \cup {k} |-> IF x = k THEN v ELSE f[x]]
Drop(f, K) == [x \in DOMAIN f \ K |-> f[x]]
Empty == [x \in {} |-> 0]

(***************************************************************************)
(* Transcripts                                                             *)
(***************************************************************************)
U == [type |-> "user", text |-> TRUE]
T == [type |-> "user", text |-> FALSE]       \* tool results only
A == [type |-> "assistant", text |-> TRUE]
X == [type |-> "malformed", text |-> FALSE]  \* json.loads raises

Rich == <<U, A, U, X, U, U>>
Thin == <<U, A, U, X, U>>
NoText == <<T, T, T, T>>

\* the transcript contents a behaviour may start with
Contents ==
    {[s \in Src |-> IF s = SrcA THEN c[1] ELSE c[2]] :
        c \in {<<Rich, Thin>>, <<Rich, NoText>>}}


\* (faulty variant) every line that parses is counted, whatever its type
count_user_messages_AnyType(t) ==
    Len(SelectSeq(t, LAMBDA e : e.type \in {"user", "assistant"}))

\* count_user_messages: lines that parse and have type "user"
count_user_messages(t) ==
    Len(SelectSeq(t, LAMBDA e : e.type = "user"))

\* extract_conversation: the messages with text ("" when there are none)
extract_conversation(t) ==
    SelectSeq(t, LAMBDA e : e.type \in {"user", "assistant"} /\ e.text)

\* session_id[:8]
Prefix8(sid) == sid[1]

\* transcript_hash: md5 of the path, 12 hex digits
transcript_hash(s) == <<"md5", s>>

(***************************************************************************)
(* Summarizer: what `claude -p` can do                                     *)
(***************************************************************************)
ClaudeRuns ==
    { [how |-> "exit0", stdout |-> "## Topic\n"],
      [how |-> "exit0", stdout |-> "SKIP\n"],
      [how |-> "exit0", stdout |-> ""],
      [how |-> "exit1", stdout |-> "## Topic\n"],
      [how |-> "timeout", stdout |-> ""] }

\* str.strip() on the outputs above
Strip(s) ==
    CASE s = "## Topic\n" -> "## Topic"
      [] s = "SKIP\n" -> "SKIP"
      [] OTHER -> s

\* summarize_with_claude: the stripped output, "" on any failure
summarize_with_claude(r) ==
    IF r.how = "exit0" THEN Strip(r.stdout) ELSE ""

(***************************************************************************)
(* State                                                                   *)
(***************************************************************************)
VARIABLES
    today,        \* date.today(), an ordinal day
    sec,          \* seconds elapsed today
    sources,      \* the transcripts that exist
    transcript,   \* the lines of each transcript
    queue,        \* QUEUE_DIR: file name -> task
    summarized,   \* SUMMARIZED_DIR: hash -> mtime
    daily,        \* DAILY_DIR: date -> lines
    weekly,       \* WEEKLY_DIR: Monday -> [ino, content]
    monthly,      \* MONTHLY_DIR: <<month, Monday>> -> [ino, content]
    inodes,       \* weekly files created so far
    maint,        \* the .maintenance-<date> markers
    lock,         \* the process holding flock(LOCK_FILE), 0 if none
    pc,           \* where each process is
    loc,          \* the local variables of each process
    drained,      \* what the current drain has done, task by task
    lost,         \* the task files whose writer lost the lock to a drain
    removed,      \* the daily files removed so far: date -> lines
    twice,        \* the repeated weekly merge: round, state before and after
    resolved,     \* the transcripts marked so far: transcript -> last outcome
    runs,         \* invocations started
    faults        \* I/O errors and kills injected

fs == <<queue, summarized, daily, weekly, monthly, inodes, maint>>
env == <<today, sec, sources, transcript>>
hist == <<lost, removed, twice, resolved>>
vars == <<today, sec, sources, transcript, queue, summarized, daily, weekly,
          monthly, inodes, maint, lock, pc, loc, drained, lost, removed,
          twice, resolved, runs, faults>>

\* time.time()
Now == today * DaySeconds + sec

NoTask == [name |-> <<>>, transcript_path |-> <<>>, session_id |-> <<>>]

Locals ==
    [kind |-> None, session_id |-> <<>>, transcript_path |-> <<>>,
     filename |-> <<>>, retry |-> FALSE, task |-> NoTask, summary |-> "",
     marker |-> <<>>, weekly_file |-> <<>>,
     daily_files |-> <<>>, i |-> 0, wf |-> <<>>, fd |-> 0,
     month_dir |-> <<>>, listed |-> {}, locked |-> FALSE, exc |-> FALSE]

\* the daily and weekly directories, empty
NoRecords == [daily |-> Empty, weekly |-> Empty]

Init ==
    /\ today = FirstDay
    /\ sec = 0
    /\ sources = Src
    /\ transcript \in Contents
    /\ queue = Empty
    /\ summarized = Empty
    /\ daily = Empty
    /\ weekly = Empty
    /\ monthly = Empty
    /\ inodes = 0
    /\ maint = {}
    /\ lock = 0
    /\ pc = [p \in Proc |-> "idle"]
    /\ loc = [p \in Proc |-> Locals]
    /\ drained = <<>>
    /\ lost = {}
    /\ removed = Empty
    /\ twice = [round |-> 0, before |-> NoRecords, first |-> NoRecords]
    /\ resolved = Empty
    /\ runs = 0
    /\ faults = 0

\* (faulty variant) the marker is looked up under another name and never found
is_summarized_Never(s) == FALSE

\* is_summarized
is_summarized(s) == transcript_hash(s) \in DOMAIN summarized

\* a new invocation takes the first free process slot
CanStart(p) ==
    /\ pc[p] = "idle"
    /\ \A q \in Proc : q < p => pc[q] # "idle"
    /\ runs + faults < MaxRuns

\* the process ends: main() returns, or the exception leaves it
Exit(p) ==
    /\ pc' = [pc EXCEPT ![p] = "idle"]
    /\ loc' = [loc EXCEPT ![p] = Locals]

\* (faulty variant) no finally: the exception leaves without LOCK_UN, and
\* the descriptor that holds the lock stays open
Raise_NoFinally(p) == Exit(p)

\* an exception propagates: through the finally of process_queue if the
\* process is inside it, out of main() otherwise
Raise(p) ==
    IF loc[p].locked
    THEN /\ pc' = [pc EXCEPT ![p] = "unlock"]
         /\ loc' = [loc EXCEPT ![p].exc = TRUE]
    ELSE Exit(p)

(***************************************************************************)
(* hook_main                                                               *)
(***************************************************************************)
\* find_previous_transcript: the most recently modified transcript that is
\* not the current session's (which one that is, is the environment's choice)
Candidates(sid) == {s \in sources : s # sid}

\* (history) the current drain has dropped a task for s whose summary failed
FailedBefore(s) ==
    \E i \in DOMAIN drained :
        /\ drained[i].src = s
        /\ drained[i].out = "failed"
        /\ drained[i].name \notin DOMAIN queue

\* lines 516-541: no transcript -> return; already summarized -> unlocked
\* monday_maintenance; otherwise go on to enqueue
HookMain(p, sid) ==
    /\ CanStart(p)
    /\ runs' = runs + 1
    /\ \E s \in Candidates(sid) \cup {<<>>} :
          /\ (s = <<>>) <=> (Candidates(sid) = {})
          /\ IF s = <<>>
             THEN UNCHANGED <<pc, loc>>
             ELSE /\ pc' = [pc EXCEPT ![p] =
                        IF is_summarized(s) THEN "monday_maintenance"
                        ELSE "enqueue"]
                  /\ loc' = [loc EXCEPT ![p].kind = "hook",
                                        ![p].session_id = sid,
                                        ![p].transcript_path = s,
                                        ![p].retry = FailedBefore(s)]
    /\ UNCHANGED <<env, fs, lock, drained, faults>>
    /\ UNCHANGED hist

\* enqueue_task: the file name is the second and the session prefix
EnqueueTask(p) ==
    /\ pc[p] = "enqueue"
    /\ LET filename == <<Now, Prefix8(loc[p].session_id)>>
       IN  /\ queue' = Put(queue, filename,
                            [transcript_path |-> loc[p].transcript_path,
                             session_id |-> loc[p].session_id,
                             mtime |-> Now])
           /\ loc' = [loc EXCEPT ![p].filename = filename]
    /\ pc' = [pc EXCEPT ![p] = "process_queue"]
    /\ UNCHANGED <<env, summarized, daily, weekly, monthly, inodes, maint,
                   lock, drained, runs, faults>>
    /\ UNCHANGED hist

(***************************************************************************)
(* process_queue                                                           *)
(***************************************************************************)
\* (faulty variant) the failure of flock is ignored and the drain goes on
AcquireLock_Anyway(p) ==
    /\ pc[p] = "process_queue"
    /\ lock' = IF lock = 0 THEN p ELSE lock
    /\ pc' = [pc EXCEPT ![p] = "get_pending_tasks"]
    /\ loc' = [loc EXCEPT ![p].locked = (lock = 0)]
    /\ UNCHANGED <<env, fs, drained, lost, removed, twice, resolved, runs,
                   faults>>

\* lines 552-561: flock(LOCK_EX | LOCK_NB); on failure log and return
AcquireLock(p) ==
    /\ pc[p] = "process_queue"
    /\ IF lock = 0
       THEN /\ lock' = p
            /\ pc' = [pc EXCEPT ![p] = "get_pending_tasks"]
            /\ loc' = [loc EXCEPT ![p].locked = TRUE]
            /\ UNCHANGED lost
       ELSE /\ Exit(p)
            /\ lost' = IF pc[lock] = "status" THEN lost
                       ELSE lost \cup {loc[p].filename}
            /\ UNCHANGED lock
    /\ UNCHANGED <<env, fs, drained, removed, twice, resolved, runs,
                   faults>>

\* get_pending_tasks, and lines 566-570: the first task in file-name order,
\* monday_maintenance when there is none
GetPendingTasks(p) ==
    /\ pc[p] = "get_pending_tasks"
    /\ LET tasks == Sorted(DOMAIN queue)
       IN  IF tasks = <<>>
           THEN /\ pc' = [pc EXCEPT ![p] = "monday_maintenance"]
                /\ UNCHANGED loc
           ELSE /\ pc' = [pc EXCEPT ![p] = "process_task"]
                /\ loc' = [loc EXCEPT ![p].task =
                      [name |-> tasks[1],
                       transcript_path |-> queue[tasks[1]].transcript_path,
                       session_id |-> queue[tasks[1]].session_id]]
    /\ UNCHANGED <<env, fs, lock, drained, runs, faults>>
    /\ UNCHANGED hist

\* process_task returns: the drain notes the outcome
Outcome(p, out) ==
    drained' = Append(drained, [src |-> loc[p].task.transcript_path,
                                 name |-> loc[p].task.name, out |-> out])

\* (faulty variant) a missing transcript is marked as summarized
ReturnMissing_Marked(p) ==
    /\ summarized' = Put(summarized,
                         transcript_hash(loc[p].task.transcript_path), Now)
    /\ Outcome(p, "missing")
    /\ pc' = [pc EXCEPT ![p] = "remove_task"]

\* lines 330-332: the transcript does not exist: log, return False
ReturnMissing(p) ==
    /\ UNCHANGED summarized
    /\ Outcome(p, "missing")
    /\ pc' = [pc EXCEPT ![p] = "remove_task"]

\* process_task, lines 327-351, up to the call of the summarizer
ProcessTask(p) ==
    /\ pc[p] = "process_task"
    /\ LET s == loc[p].task.transcript_path
       IN  IF s \notin sources
           THEN ReturnMissing(p)
           ELSE IF is_summarized(s)
           THEN /\ Outcome(p, "summarized")
                /\ pc' = [pc EXCEPT ![p] = "remove_task"]
                /\ UNCHANGED summarized
           ELSE IF count_user_messages(transcript[s]) < MIN_MESSAGES
           THEN /\ pc' = [pc EXCEPT ![p] = "mark_few"]
                /\ UNCHANGED <<drained, summarized>>
           ELSE IF extract_conversation(transcript[s]) = <<>>
           THEN /\ pc' = [pc EXCEPT ![p] = "mark_empty"]
                /\ UNCHANGED <<drained, summarized>>
           ELSE /\ pc' = [pc EXCEPT ![p] = "summarize"]
                /\ UNCHANGED <<drained, summarized>>
    /\ UNCHANGED <<env, queue, daily, weekly, monthly, inodes, maint, lock,
                   loc, runs, faults>>
    /\ UNCHANGED hist

\* (faulty variant) a failed summary is marked as summarized
ReturnFailed_Marked(p) ==
    /\ summarized' = Put(summarized,
                         transcript_hash(loc[p].task.transcript_path), Now)
    /\ Outcome(p, "failed")
    /\ pc' = [pc EXCEPT ![p] = "remove_task"]

\* lines 357-359: no summary: log, return False
ReturnFailed(p) ==
    /\ UNCHANGED summarized
    /\ Outcome(p, "failed")
    /\ pc' = [pc EXCEPT ![p] = "remove_task"]

\* (faulty variant) the answer SKIP is saved like any other summary
IsSkip_Never(summary) == FALSE

\* line 361: summary.strip() == "SKIP"
IsSkip(summary) == Strip(summary) = "SKIP"

\* lines 353-364: the summarizer's answer decides
Summarize(p) ==
    /\ pc[p] = "summarize"
    /\ \E r \in ClaudeRuns :
         LET summary == summarize_with_claude(r)
         IN  /\ loc' = [loc EXCEPT ![p].summary = summary]
             /\ IF summary = ""
                THEN ReturnFailed(p)
                ELSE IF IsSkip(summary)
                THEN /\ pc' = [pc EXCEPT ![p] = "mark_skip"]
                     /\ UNCHANGED <<drained, summarized>>
                ELSE /\ pc' = [pc EXCEPT ![p] = "save_daily"]
                     /\ UNCHANGED <<drained, summarized>>
    /\ UNCHANGED <<env, queue, daily, weekly, monthly, inodes, maint, lock,
                   runs, faults>>
    /\ UNCHANGED hist

DailyHeader(iso) == [k |-> "daily", a |-> iso, b |-> <<>>]
Entry(sid, s) == [k |-> "entry", a |-> <<Prefix8(sid)>>, b |-> s]

\* (faulty variant) the entry is not written before the marker
SaveDaily_Skipped(p) ==
    /\ pc[p] = "save_daily"
    /\ pc' = [pc EXCEPT ![p] = "mark_saved"]
    /\ UNCHANGED <<env, fs, lock, loc, drained, runs, faults>>
    /\ UNCHANGED hist

\* save_daily: create today's file with its header if needed, append the entry
SaveDaily(p) ==
    /\ pc[p] = "save_daily"
    /\ LET daily_file == IsoFormat(today)
           old == IF daily_file \in DOMAIN daily THEN daily[daily_file]
                  ELSE <<DailyHeader(daily_file)>>
       IN  daily' = Put(daily, daily_file,
                        Append(old, Entry(loc[p].task.session_id,
                                          loc[p].task.transcript_path)))
    /\ pc' = [pc EXCEPT ![p] = "mark_saved"]
    /\ UNCHANGED <<env, queue, summarized, weekly, monthly, inodes, maint,
                   lock, loc, drained, runs, faults>>
    /\ UNCHANGED hist

MarkPc == {"mark_few", "mark_empty", "mark_skip", "mark_saved"}
MarkOutcome(at) ==
    CASE at = "mark_few" -> "few"
      [] at = "mark_empty" -> "empty"
      [] at = "mark_skip" -> "skip"
      [] at = "mark_saved" -> "saved"

\* mark_summarized, then process_task returns True
MarkSummarized(p) ==
    /\ pc[p] \in MarkPc
    /\ summarized' = Put(summarized,
                         transcript_hash(loc[p].task.transcript_path), Now)
    /\ Outcome(p, MarkOutcome(pc[p]))
    /\ resolved' = Put(resolved, loc[p].task.transcript_path,
                       MarkOutcome(pc[p]))
    /\ pc' = [pc EXCEPT ![p] = "remove_task"]
    /\ UNCHANGED <<env, queue, daily, weekly, monthly, inodes, maint, lock,
                   loc, lost, removed, twice, runs, faults>>

\* remove_task: delete the task's file if it is still there
RemoveTask(p) ==
    /\ pc[p] = "remove_task"
    /\ queue' = Drop(queue, {loc[p].task.name})
    /\ lost' = lost \ {loc[p].task.name}
    /\ pc' = [pc EXCEPT ![p] = "get_pending_tasks"]
    /\ loc' = [loc EXCEPT ![p].task = NoTask, ![p].summary = ""]
    /\ UNCHANGED <<env, summarized, daily, weekly, monthly, inodes, maint,
                   lock, drained, removed, twice, resolved, runs,
                   faults>>

\* the finally of process_queue: flock(LOCK_UN), close
Unlock(p) ==
    /\ pc[p] = "unlock"
    /\ lock' = 0
    /\ drained' = <<>>
    /\ Exit(p)
    /\ UNCHANGED <<env, fs, runs, faults>>
    /\ UNCHANGED hist

(***************************************************************************)
(* monday_maintenance                                                      *)
(***************************************************************************)
\* the CLI command `maintenance`: monday_maintenance without the lock
MaintenanceMain(p) ==
    /\ CanStart(p)
    /\ runs' = runs + 1
    /\ pc' = [pc EXCEPT ![p] = "monday_maintenance"]
    /\ loc' = [loc EXCEPT ![p].kind = "maintenance"]
    /\ UNCHANGED <<env, fs, lock, drained, faults>>
    /\ UNCHANGED hist

\* is_monday
is_monday == Weekday(today) = 0

\* monday_maintenance returns to its caller
Return(p) ==
    IF loc[p].locked
    THEN /\ pc' = [pc EXCEPT ![p] = "unlock"]
         /\ UNCHANGED loc
    ELSE Exit(p)

\* lines 486-494: only on a Monday, only if today's marker is not there
MondayMaintenance(p) ==
    /\ pc[p] = "monday_maintenance"
    /\ IF ~is_monday \/ IsoFormat(today) \in maint
       THEN Return(p)
       ELSE /\ pc' = [pc EXCEPT ![p] = "generate_weekly"]
            /\ loc' = [loc EXCEPT ![p].marker = IsoFormat(today)]
    /\ UNCHANGED <<env, fs, lock, drained, runs, faults>>
    /\ UNCHANGED hist

\* last_week_range
last_monday == today - (Weekday(today) + 7)
last_sunday == last_monday + 6

\* generate_weekly, lines 388-393: nothing to do if the weekly file exists
GenerateWeekly(p) ==
    /\ pc[p] = "generate_weekly"
    /\ LET weekly_file == IsoFormat(last_monday)
       IN  IF weekly_file \in DOMAIN weekly
           THEN /\ pc' = [pc EXCEPT ![p] = "cleanup_summarized"]
                /\ UNCHANGED loc
           ELSE /\ pc' = [pc EXCEPT ![p] = "list_daily"]
                /\ loc' = [loc EXCEPT ![p].weekly_file = weekly_file]
    /\ UNCHANGED <<env, fs, lock, drained, runs, faults>>
    /\ UNCHANGED hist

\* (faulty variant) the range ends a day early: Sunday's file is left out
InWeek_NoSunday(f, weekly_file) ==
    /\ FromIso(weekly_file) <= FromIso(f)
    /\ FromIso(f) < FromIso(weekly_file) + 6

\* the daily files dated within [Monday, Sunday] of the weekly file
InWeek(f, weekly_file) ==
    /\ FromIso(weekly_file) <= FromIso(f)
    /\ FromIso(f) <= FromIso(weekly_file) + 6

\* lines 395-409: last week's daily files in name order; none -> return
ListDaily(p) ==
    /\ pc[p] = "list_daily"
    /\ LET daily_files ==
               Sorted({f \in DOMAIN daily : InWeek(f, loc[p].weekly_file)})
       IN  IF daily_files = <<>>
           THEN /\ pc' = [pc EXCEPT ![p] = "cleanup_summarized"]
                /\ loc' = [loc EXCEPT ![p].weekly_file = <<>>]
           ELSE /\ pc' = [pc EXCEPT ![p] = "open_weekly"]
                /\ loc' = [loc EXCEPT ![p].daily_files = daily_files]
    /\ UNCHANGED <<env, fs, lock, drained, runs, faults>>
    /\ UNCHANGED hist

WeeklyHeader(weekly_file) ==
    [k |-> "weekly", a |-> weekly_file,
     b |-> IsoFormat(FromIso(weekly_file) + 6)]

\* line 414: the "\n" written before each daily file
Blank == [k |-> "blank", a |-> <<>>, b |-> <<>>]

\* lines 411-412: open(weekly_file, "w") creates the file or truncates it;
\* what is written stays in the process's buffer until the file is closed
OpenWeekly(p) ==
    /\ pc[p] = "open_weekly"
    /\ LET f == loc[p].weekly_file
           ino == IF f \in DOMAIN weekly THEN weekly[f].ino ELSE inodes + 1
       IN  /\ weekly' = Put(weekly, f, [ino |-> ino, content |-> <<>>])
           /\ inodes' = IF f \in DOMAIN weekly THEN inodes ELSE inodes + 1
           /\ loc' = [loc EXCEPT ![p].fd = ino,
                                 ![p].wf = <<WeeklyHeader(f)>>,
                                 ![p].i = 1]
    /\ pc' = [pc EXCEPT ![p] = "copy_daily"]
    /\ UNCHANGED <<env, queue, summarized, daily, monthly, maint, lock,
                   drained, runs, faults>>
    /\ UNCHANGED hist

\* a buffered write from offset 0 over what the file holds
WriteAt(content, buffer) ==
    buffer \o SubSeq(content, Len(buffer) + 1, Len(content))

\* closing the file writes the buffer to the file the descriptor refers to,
\* wherever a rename has put it
Close(dir, fd, buffer) ==
    [f \in DOMAIN dir |->
        IF dir[f].ino = fd
        THEN [ino |-> fd, content |-> WriteAt(dir[f].content, buffer)]
        ELSE dir[f]]

\* lines 413-416: copy the next daily file; a file that another process
\* has removed raises FileNotFoundError, and the with block closes wf
CopyDaily(p) ==
    /\ pc[p] = "copy_daily"
    /\ LET i == loc[p].i
           files == loc[p].daily_files
       IN  IF i > Len(files)
           THEN /\ weekly' = Close(weekly, loc[p].fd, loc[p].wf)
                /\ monthly' = Close(monthly, loc[p].fd, loc[p].wf)
                /\ pc' = [pc EXCEPT ![p] = "remove_daily"]
                /\ loc' = [loc EXCEPT ![p].i = 1, ![p].wf = <<>>, ![p].fd = 0]
           ELSE IF files[i] \in DOMAIN daily
           THEN /\ loc' = [loc EXCEPT ![p].wf = @ \o <<Blank>> \o daily[files[i]],
                                      ![p].i = i + 1]
                /\ UNCHANGED <<weekly, monthly, pc>>
           ELSE /\ weekly' = Close(weekly, loc[p].fd, loc[p].wf)
                /\ monthly' = Close(monthly, loc[p].fd, loc[p].wf)
                /\ Raise(p)
    /\ UNCHANGED <<env, queue, summarized, daily, inodes, maint, lock,
                   drained, runs, faults>>
    /\ UNCHANGED hist

\* lines 420-423: os.remove each daily file that was copied
RemoveDaily(p) ==
    /\ pc[p] = "remove_daily"
    /\ LET i == loc[p].i
           files == loc[p].daily_files
       IN  IF i > Len(files)
           THEN /\ pc' = [pc EXCEPT ![p] = "cleanup_summarized"]
                /\ loc' = [loc EXCEPT ![p].i = 0, ![p].daily_files = <<>>,
                                      ![p].weekly_file = <<>>]
                /\ UNCHANGED <<daily, removed>>
           ELSE IF files[i] \in DOMAIN daily
           THEN /\ daily' = Drop(daily, {files[i]})
                /\ removed' = Put(removed, files[i], daily[files[i]])
                /\ loc' = [loc EXCEPT ![p].i = i + 1]
                /\ UNCHANGED pc
           ELSE /\ Raise(p)
                /\ UNCHANGED <<daily, removed>>
    /\ UNCHANGED <<env, queue, summarized, weekly, monthly, inodes, maint,
                   lock, drained, lost, twice, resolved, runs,
                   faults>>

\* (faulty variant) the comparison is reversed: the recent files are removed
Older_Reversed(mtime) == mtime > Now - WeekDays * DaySeconds

\* lines 428-432 and 440-444: os.path.getmtime(filepath) < one_week_ago
Older(mtime) == mtime < Now - WeekDays * DaySeconds

\* files last modified more than a week ago
Stale(dir) == {f \in DOMAIN dir : Older(dir[f].mtime)}

\* cleanup_summarized
CleanupSummarized(p) ==
    /\ pc[p] = "cleanup_summarized"
    /\ summarized' = Drop(summarized,
           {h \in DOMAIN summarized : Older(summarized[h])})
    /\ pc' = [pc EXCEPT ![p] = "cleanup_queue"]
    /\ UNCHANGED <<env, queue, daily, weekly, monthly, inodes, maint, lock,
                   loc, drained, runs, faults>>
    /\ UNCHANGED hist

\* cleanup_queue
CleanupQueue(p) ==
    /\ pc[p] = "cleanup_queue"
    /\ queue' = Drop(queue, Stale(queue))
    /\ lost' = lost \ Stale(queue)
    /\ pc' = [pc EXCEPT ![p] = "archive_monthly"]
    /\ UNCHANGED <<env, summarized, daily, weekly, monthly, inodes, maint,
                   lock, loc, drained, removed, twice, resolved, runs,
                   faults>>

\* today.replace(day=1) - timedelta(days=1)
last_month == today - MonthDay(1, today)[2]

\* archive_monthly, lines 452-472: in the first 7 days of a month, list the
\* weekly files whose Monday lies in last month
ArchiveMonthly(p) ==
    /\ pc[p] = "archive_monthly"
    /\ IF MonthDay(1, today)[2] > 7
       THEN /\ pc' = [pc EXCEPT ![p] = "touch_marker"]
            /\ UNCHANGED loc
       ELSE /\ pc' = [pc EXCEPT ![p] = "move_weekly"]
            /\ loc' = [loc EXCEPT
                  ![p].month_dir = YearMonth(last_month),
                  ![p].listed = {f \in DOMAIN weekly :
                                   YearMonth(FromIso(f)) = YearMonth(last_month)}]
    /\ UNCHANGED <<env, fs, lock, drained, runs, faults>>
    /\ UNCHANGED hist

\* lines 473-478: shutil.move of the next listed file (os.listdir gives no
\* order); a file that is gone raises FileNotFoundError
MoveWeekly(p) ==
    /\ pc[p] = "move_weekly"
    /\ IF loc[p].listed = {}
       THEN /\ pc' = [pc EXCEPT ![p] = "touch_marker"]
            /\ loc' = [loc EXCEPT ![p].month_dir = <<>>]
            /\ UNCHANGED <<weekly, monthly>>
       ELSE \E f \in loc[p].listed :
              IF f \in DOMAIN weekly
              THEN /\ monthly' = Put(monthly, <<loc[p].month_dir, f>>, weekly[f])
                   /\ weekly' = Drop(weekly, {f})
                   /\ loc' = [loc EXCEPT ![p].listed = @ \ {f}]
                   /\ UNCHANGED pc
              ELSE /\ Raise(p)
                   /\ UNCHANGED <<weekly, monthly>>
    /\ UNCHANGED <<env, queue, summarized, daily, inodes, maint, lock,
                   drained, runs, faults>>
    /\ UNCHANGED hist

\* lines 499-511: touch today's marker, remove the markers older than 7 days
TouchMarker(p) ==
    /\ pc[p] = "touch_marker"
    /\ maint' = {m \in maint \cup {loc[p].marker} :
                    ~(FromIso(m) < today - 7)}
    /\ Return(p)
    /\ UNCHANGED <<env, queue, summarized, daily, weekly, monthly, inodes,
                   lock, drained, runs, faults>>
    /\ UNCHANGED hist

(***************************************************************************)
(* cli_status                                                              *)
(***************************************************************************)
\* the CLI command `status`, lines 705-717: it counts the queue files and
\* the markers, then probes the lock with flock(LOCK_EX | LOCK_NB); if that
\* succeeds it holds the lock until the flock(LOCK_UN) of the next line
CliStatus(p) ==
    /\ CanStart(p)
    /\ runs' = runs + 1
    /\ IF lock = 0
       THEN /\ lock' = p
            /\ pc' = [pc EXCEPT ![p] = "status"]
            /\ loc' = [loc EXCEPT ![p].kind = "status", ![p].locked = TRUE]
       ELSE UNCHANGED <<lock, pc, loc>>
    /\ UNCHANGED <<env, fs, drained, faults>>
    /\ UNCHANGED hist

\* lines 714-715: flock(LOCK_UN), close; the rest only prints
StatusUnlock(p) ==
    /\ pc[p] = "status"
    /\ lock' = 0
    /\ Exit(p)
    /\ UNCHANGED <<env, fs, drained, runs, faults>>
    /\ UNCHANGED hist

(***************************************************************************)
(* Environment                                                             *)
(***************************************************************************)
\* a transcript is deleted before the drain looks at the task that names it
DeleteSource(s) ==
    /\ s \in sources
    /\ \E p \in Proc : /\ pc[p] = "process_task"
                        /\ loc[p].task.transcript_path = s
    /\ sources' = sources \ {s}
    /\ UNCHANGED <<today, sec, transcript, fs, lock, pc, loc, drained, runs,
                   faults>>
    /\ UNCHANGED hist

\* a second passes between the naming of two task files
Tick ==
    /\ sec < MaxSec
    /\ queue # Empty
    /\ \E p \in Proc : pc[p] = "enqueue"
    /\ sec' = sec + 1
    /\ UNCHANGED <<today, sources, transcript, fs, lock, pc, loc, drained,
                   runs, faults>>
    /\ UNCHANGED hist

\* the days on which the script is invoked: the first day and the Mondays
RunDays == {d \in FirstDay..LastDay : d = FirstDay \/ Weekday(d) = 0}

\* time passes, between invocations, up to the next day the script is invoked
NextDay ==
    /\ \A p \in Proc : pc[p] = "idle"
    /\ \E d \in RunDays :
          /\ d > today
          /\ \A e \in RunDays : e > today => d <= e
          /\ today' = d
    /\ sec' = 0
    /\ UNCHANGED <<sources, transcript, fs, lock, pc, loc, drained, runs,
                   faults>>
    /\ UNCHANGED hist

\* a fault uses up one invocation of the budget
CanFail == faults < MaxFaults /\ runs + faults < MaxRuns

\* the write of save_daily or mark_summarized fails with OSError
WriteFails(p) ==
    /\ pc[p] \in MarkPc \cup {"save_daily"}
    /\ CanFail
    /\ faults' = faults + 1
    /\ Raise(p)
    /\ UNCHANGED <<env, fs, lock, drained, runs>>
    /\ UNCHANGED hist

\* the process is killed; the kernel drops its flock, its buffers are lost
Kill(p) ==
    /\ pc[p] # "idle"
    /\ CanFail
    /\ faults' = faults + 1
    /\ lock' = IF lock = p THEN 0 ELSE lock
    /\ drained' = IF lock = p THEN <<>> ELSE drained
    /\ Exit(p)
    /\ UNCHANGED <<env, fs, runs>>
    /\ UNCHANGED hist

Next ==
    \/ \E p \in Proc, sid \in Sessions : HookMain(p, sid)
    \/ \E p \in Proc : EnqueueTask(p)
    \/ \E p \in Proc : AcquireLock(p)
    \/ \E p \in Proc : GetPendingTasks(p)
    \/ \E p \in Proc : ProcessTask(p)
    \/ \E p \in Proc : Summarize(p)
    \/ \E p \in Proc : SaveDaily(p)
    \/ \E p \in Proc : MarkSummarized(p)
    \/ \E p \in Proc : RemoveTask(p)
    \/ \E p \in Proc : Unlock(p)
    \/ \E p \in Proc : MaintenanceMain(p)
    \/ \E p \in Proc : MondayMaintenance(p)
    \/ \E p \in Proc : GenerateWeekly(p)
    \/ \E p \in Proc : ListDaily(p)
    \/ \E p \in Proc : OpenWeekly(p)
    \/ \E p \in Proc : CopyDaily(p)
    \/ \E p \in Proc : RemoveDaily(p)
    \/ \E p \in Proc : CleanupSummarized(p)
    \/ \E p \in Proc : CleanupQueue(p)
    \/ \E p \in Proc : ArchiveMonthly(p)
    \/ \E p \in Proc : MoveWeekly(p)
    \/ \E p \in Proc : TouchMarker(p)
    \/ \E p \in Proc : CliStatus(p)
    \/ \E p \in Proc : StatusUnlock(p)
    \/ \E p \in Proc : WriteFails(p)
    \/ \E p \in Proc : Kill(p)
    \/ \E s \in Src : DeleteSource(s)
    \/ Tick
    \/ NextDay

Spec == Init /\ [][Next]_vars

(***************************************************************************)
(* generate_weekly called twice in a row by one process, from the states   *)
(* of the daily and weekly directories a Monday can find                   *)
(***************************************************************************)
\* the Monday of the repeated merge: 2025-05-26
TwiceDay == FirstDay + 1

\* the dates whose daily files may be there: the Sunday before last week,
\* last week's Monday and Sunday, and today
TwiceDates == {IsoFormat(TwiceDay - 8), IsoFormat(TwiceDay - 7),
               IsoFormat(TwiceDay - 1), IsoFormat(TwiceDay)}

\* a daily file as save_daily leaves it after one entry
DailyOf(iso) == <<DailyHeader(iso), Entry(<<2, 1>>, SrcA)>>

\* the weekly file that generate_weekly writes from the daily files `files`
WeeklyOf(weekly_file, files) ==
    <<WeeklyHeader(weekly_file)>>
    \o Concat([i \in 1..Len(files) |-> <<Blank>> \o DailyOf(files[i])])

\* The directories before the first call: any set of daily files and no
\* weekly file; or the weekly file of an earlier call, which has removed
\* the daily files it was made from.
InitTwice ==
    /\ today = TwiceDay
    /\ sec = 0
    /\ sources = Src
    /\ transcript \in Contents
    /\ queue = Empty
    /\ summarized = Empty
    /\ monthly = Empty
    /\ maint = {}
    /\ lock = 0
    /\ \E have \in SUBSET TwiceDates :
         LET wfile == IsoFormat(TwiceDay - 7)
             files == Sorted({f \in have : InWeek(f, wfile)})
         IN  \/ /\ daily = [f \in have |-> DailyOf(f)]
                /\ weekly = Empty
                /\ inodes = 0
             \/ /\ files # <<>>
                /\ daily = [f \in have \ Range(files) |-> DailyOf(f)]
                /\ weekly = Put(Empty, wfile,
                                [ino |-> 1, content |-> WeeklyOf(wfile, files)])
                /\ inodes = 1
    /\ pc = [p \in Proc |-> IF p = 1 THEN "generate_weekly" ELSE "idle"]
    /\ loc = [p \in Proc |->
                IF p = 1 THEN [Locals EXCEPT !.kind = "maintenance"]
                ELSE Locals]
    /\ drained = <<>>
    /\ lost = {}
    /\ removed = Empty
    /\ twice = [round |-> 1,
                before |-> [daily |-> daily, weekly |-> weekly],
                first |-> NoRecords]
    /\ resolved = Empty
    /\ runs = 1
    /\ faults = 0

\* generate_weekly has returned; it is called again
RunAgain(p) ==
    /\ pc[p] = "cleanup_summarized"
    /\ twice.round = 1
    /\ twice' = [twice EXCEPT !.round = 2,
                              !.first = [daily |-> daily, weekly |-> weekly]]
    /\ pc' = [pc EXCEPT ![p] = "generate_weekly"]
    /\ UNCHANGED <<env, fs, lock, loc, drained, lost, removed, resolved,
                   runs, faults>>

NextTwice ==
    \/ \E p \in Proc : GenerateWeekly(p)
    \/ \E p \in Proc : ListDaily(p)
    \/ \E p \in Proc : OpenWeekly(p)
    \/ \E p \in Proc : CopyDaily(p)
    \/ \E p \in Proc : RemoveDaily(p)
    \/ \E p \in Proc : RunAgain(p)

SpecTwice == InitTwice /\ [][NextTwice]_vars

(***************************************************************************)
(* Properties                                                              *)
(***************************************************************************)
DrainPc == {"get_pending_tasks", "process_task", "summarize", "save_daily",
            "remove_task"} \cup MarkPc
MaintenancePc == {"generate_weekly", "list_daily", "open_weekly",
                  "copy_daily", "remove_daily", "cleanup_summarized",
                  "cleanup_queue", "archive_monthly", "move_weekly",
                  "touch_marker"}
InCycle(p) == pc[p] \in DrainPc \cup MaintenancePc

\* C1: at most one process at a time is draining the queue or executing a
\* maintenance step, whichever entry point started it.
C1_OneProcessInCycle ==
    \A p, q \in Proc : InCycle(p) /\ InCycle(q) => p = q

\* the tasks of the current drain that named transcript s, in drain order
DrainedOf(s) == {i \in DOMAIN drained : drained[i].src = s}

\* the entries the current drain has appended for transcript s: those of the
\* tasks it has finished, and the one just written by save_daily
AppendedFor(s) ==
    Cardinality({i \in DrainedOf(s) : drained[i].out = "saved"})
    + Cardinality({p \in Proc : /\ pc[p] = "mark_saved"
                                /\ loc[p].task.transcript_path = s})

\* C2: when one drain processes several tasks that name the same transcript,
\* it appends one entry for it: once a task of the drain has been saved,
\* every later task for that transcript (which still exists) finds the
\* marker and is a no-op, and no second entry is appended.
C2_DuplicateTaskOneEntry ==
    \A s \in Src :
        /\ AppendedFor(s) <= 1
        /\ \A i, j \in DrainedOf(s) :
              (i < j /\ drained[i].out = "saved" /\ drained[j].out # "missing")
                  => drained[j].out = "summarized"

C2_Witness ==
    \E i, j \in DOMAIN drained :
        /\ i < j
        /\ drained[i].src = drained[j].src
        /\ drained[i].name # drained[j].name
        /\ drained[i].out = "saved"
        /\ drained[j].out = "summarized"
        /\ AppendedFor(drained[i].src) = 1

\* the lines `part` stand together somewhere in `content`
Contains(content, part) ==
    \E k \in 0..(Len(content) - Len(part)) :
        SubSeq(content, k + 1, k + Len(part)) = part

\* the Monday of the week of the date a file name carries
MondayOf(f) == IsoFormat(FromIso(f) - Weekday(FromIso(f)))

\* the Weekly Records of the week starting on Monday m, wherever they lie
RecordsOf(m) ==
    {weekly[f].content : f \in DOMAIN weekly \cap {m}}
    \cup {monthly[k].content : k \in {x \in DOMAIN monthly : x[2] = m}}

\* C3: every Daily Record that has been removed stands, complete, in the
\* Weekly Record of its week.
C3_RemovedDailyIsInWeekly ==
    \A f \in DOMAIN removed :
        /\ RecordsOf(MondayOf(f)) # {}
        /\ \A c \in RecordsOf(MondayOf(f)) : Contains(c, removed[f])

\* the week of the repeated merge, and the daily files of d dated within it
TwiceWeek == IsoFormat(TwiceDay - 7)
TwiceInRange(d) ==
    {f \in DOMAIN d : \E n \in 0..6 : f = IsoFormat(TwiceDay - 7 + n)}

\* the header of the week and then each daily file of d in the week, after a
\* blank line, in date order
TwiceExpected(d) ==
    LET files == Sorted(TwiceInRange(d))
    IN  <<[k |-> "weekly", a |-> TwiceWeek, b |-> IsoFormat(TwiceDay - 1)]>>
        \o Concat([i \in 1..Len(files) |-> <<Blank>> \o d[files[i]]])

\* the second call of generate_weekly has returned
TwiceDone == twice.round = 2 /\ pc[1] = "cleanup_summarized"

\* C4 (as stated): after the weekly merge has run twice in a row there is
\* exactly one Weekly Record for the week, equal to the one after the first
\* run, made of each in-range Daily Record once in date order, and no
\* in-range Daily Record remains.
C4_TwiceExactlyOneWeekly ==
    TwiceDone =>
        /\ TwiceWeek \in DOMAIN weekly
        /\ weekly = twice.first.weekly
        /\ TwiceWeek \notin DOMAIN twice.before.weekly
              => weekly[TwiceWeek].content = TwiceExpected(twice.before.daily)
        /\ TwiceInRange(daily) = {}

\* C4 (amended): the second run changes nothing.  If no Weekly Record
\* existed before the first run: with at least one in-range Daily Record
\* the Weekly Record is the header and each in-range Daily Record once in
\* date order, and exactly those Daily Records are gone; with none, no
\* Weekly Record is created.  If one existed, both runs change nothing.
C4_SecondMergeIsNoOp ==
    TwiceDone =>
        /\ daily = twice.first.daily
        /\ weekly = twice.first.weekly
        /\ DOMAIN weekly \subseteq {TwiceWeek}
        /\ IF TwiceWeek \in DOMAIN twice.before.weekly
              \/ TwiceInRange(twice.before.daily) = {}
           THEN /\ daily = twice.before.daily
                /\ weekly = twice.before.weekly
           ELSE /\ TwiceWeek \in DOMAIN weekly
                /\ weekly[TwiceWeek].content
                       = TwiceExpected(twice.before.daily)
                /\ daily = Drop(twice.before.daily,
                                TwiceInRange(twice.before.daily))

C4_Witness ==
    /\ TwiceDone
    /\ TwiceWeek \notin DOMAIN twice.before.weekly
    /\ Cardinality(TwiceInRange(twice.before.daily)) = 2
    /\ Cardinality(DOMAIN twice.before.daily) = 4
    /\ TwiceWeek \in DOMAIN weekly
    /\ Cardinality(DOMAIN daily) = 2

\* C5: while another process holds the gate, a process that attempts the
\* drain is not blocked, and its attempt ends the process and leaves the
\* task queue, the ledger, the daily, weekly and monthly records, the
\* maintenance markers and the gate as they were.
C5_GateHeldNothingChanges ==
    /\ [](\A p \in Proc : pc[p] = "process_queue" => ENABLED AcquireLock(p))
    /\ [][\A p \in Proc :
            (pc[p] = "process_queue" /\ lock # 0 /\ pc'[p] # pc[p])
                => /\ pc'[p] = "idle"
                   /\ UNCHANGED <<queue, summarized, daily, weekly, monthly,
                                  maint, lock>>]_vars

C5_Witness ==
    \E p, q \in Proc :
        /\ p # q
        /\ lock = q
        /\ pc[q] \in DrainPc
        /\ pc[p] = "idle"
        /\ lost # {}
        /\ lost \subseteq DOMAIN queue

\* the outcome of the task the drain has just processed
LastOutcome == IF drained = <<>> THEN None ELSE drained[Len(drained)].out

C7_FailedSummaryStaysEligible ==
    [][\A p \in Proc :
         /\ (/\ pc[p] = "summarize"
             /\ pc'[p] \notin {"summarize", "idle"}
             /\ loc'[p].summary = "")
                => /\ pc'[p] = "remove_task"
                   /\ LastOutcome' = "failed"
                   /\ UNCHANGED <<summarized, daily>>
         /\ (/\ pc[p] = "remove_task"
             /\ LastOutcome = "failed"
             /\ pc'[p] \notin {"remove_task", "idle"})
                => /\ loc[p].task.name \notin DOMAIN queue'
                   /\ UNCHANGED <<summarized, daily>>
         /\ (/\ pc[p] = "idle"
             /\ pc'[p] # "idle"
             /\ loc'[p].kind = "hook"
             /\ ~is_summarized(loc'[p].transcript_path))
                => pc'[p] = "enqueue"
         /\ (pc[p] = "enqueue" /\ pc'[p] \notin {"enqueue", "idle"})
                => \E f \in DOMAIN queue' :
                      /\ queue'[f].transcript_path = loc[p].transcript_path
                      /\ queue'[f].session_id = loc[p].session_id]_vars

\* a trigger has enqueued again a source whose summary failed in the
\* current drain and whose task was removed
C7_Witness ==
    \E p \in Proc :
        /\ pc[p] = "process_queue"
        /\ loc[p].retry
        /\ ~is_summarized(loc[p].transcript_path)
        /\ loc[p].filename \in DOMAIN queue
        /\ queue[loc[p].filename].transcript_path = loc[p].transcript_path
        /\ daily = Empty

\* the transcript s has fewer user lines than the minimum
BelowMinimum(s) ==
    Cardinality({i \in DOMAIN transcript[s] : transcript[s][i].type = "user"})
        < MIN_MESSAGES

\* the records that hold entries, wherever they lie or lay
AllRecords ==
    Range(daily) \cup Range(removed)
    \cup {weekly[f].content : f \in DOMAIN weekly}
    \cup {monthly[k].content : k \in DOMAIN monthly}

\* C8: a task whose source has fewer user messages than the minimum never
\* reaches the summarizer or save_daily, no record ever holds an entry for
\* the source, and when its processing has marked it the marker is there.
C8_FewMessagesNoEntryButMarker ==
    \A s \in Src : BelowMinimum(s) =>
        /\ \A p \in Proc :
              loc[p].task.transcript_path = s
                  => /\ pc[p] \in {"process_task", "mark_few", "remove_task",
                                    "unlock"}
                     /\ (pc[p] = "remove_task"
                           => /\ LastOutcome \in {"missing", "summarized", "few"}
                              /\ LastOutcome = "few" => is_summarized(s))
        /\ \A i \in DrainedOf(s) :
              drained[i].out \in {"missing", "summarized", "few"}
        /\ \A r \in AllRecords : \A i \in DOMAIN r :
              ~(r[i].k = "entry" /\ r[i].b = s)

C8_Witness ==
    \E p \in Proc :
        /\ pc[p] = "remove_task"
        /\ LastOutcome = "few"
        /\ BelowMinimum(loc[p].task.transcript_path)
        /\ loc[p].task.transcript_path \in sources
        /\ is_summarized(loc[p].task.transcript_path)
        /\ daily = Empty

\* C9: a task whose summarizer response is SKIP goes to mark_summarized
\* and never to save_daily; when its processing has returned, the marker of
\* its source is there and no entry was appended for it.
C9_SkipNoEntryButMarker ==
    \A p \in Proc : loc[p].summary = "SKIP" =>
        /\ pc[p] \in {"mark_skip", "remove_task", "unlock"}
        /\ pc[p] = "remove_task"
              => /\ LastOutcome = "skip"
                 /\ is_summarized(loc[p].task.transcript_path)
                 /\ AppendedFor(loc[p].task.transcript_path) = 0

C9_Witness ==
    \E p \in Proc :
        /\ pc[p] = "remove_task"
        /\ loc[p].summary = "SKIP"
        /\ is_summarized(loc[p].task.transcript_path)
        /\ daily = Empty

\* the places where a Weekly Record of the week of Monday m lies
LocationsOf(m) ==
    {<<"weekly", f>> : f \in DOMAIN weekly \cap {m}}
    \cup {<<"monthly", k>> : k \in {x \in DOMAIN monthly : x[2] = m}}

\* C10: a Weekly Record of a week lies in at most one place, the weekly
\* area or one monthly directory, and the step of the monthly archive that
\* moves a record leaves its content as it was.
C10_OneLocationSameContent ==
    [][/\ \A m \in DOMAIN weekly' \cup {k[2] : k \in DOMAIN monthly'} :
            Cardinality(LocationsOf(m)') <= 1
       /\ \A p \in Proc :
            (pc[p] = "move_weekly" /\ pc'[p] = "move_weekly")
                => \A f \in loc[p].listed \ loc'[p].listed :
                      /\ f \in DOMAIN weekly
                      /\ f \notin DOMAIN weekly'
                      /\ <<loc[p].month_dir, f>> \in DOMAIN monthly'
                      /\ monthly'[<<loc[p].month_dir, f>>].content
                            = weekly[f].content]_vars

\* the age in seconds of a file last modified at mtime
Age(mtime) == Now - mtime

\* C11: in a maintenance run the cleanup of the ledger removes exactly the
\* markers last modified more than 7 days earlier, and the cleanup of the
\* queue removes exactly the queue files last modified more than 7 days
\* earlier; everything modified within the last 7 days stays.  A run
\* completes only after both steps.
C11_CleanupRemovesOlderThanWeek ==
    [][\A p \in Proc :
         /\ (pc[p] = "cleanup_summarized" /\ pc'[p] = "cleanup_queue")
                => /\ \A h \in DOMAIN summarized :
                        h \in DOMAIN summarized'
                            <=> Age(summarized[h]) <= 7 * 86400
                   /\ \A h \in DOMAIN summarized' :
                        /\ h \in DOMAIN summarized
                        /\ summarized'[h] = summarized[h]
                   /\ queue' = queue
         /\ (pc[p] = "cleanup_queue" /\ pc'[p] = "archive_monthly")
                => /\ \A f \in DOMAIN queue :
                        f \in DOMAIN queue'
                            <=> Age(queue[f].mtime) <= 7 * 86400
                   /\ \A f \in DOMAIN queue' :
                        /\ f \in DOMAIN queue
                        /\ queue'[f] = queue[f]
                   /\ summarized' = summarized
         /\ pc'[p] = "touch_marker"
                => pc[p] \in {"touch_marker", "archive_monthly",
                              "move_weekly"}
         /\ pc'[p] = "archive_monthly"
                => pc[p] \in {"archive_monthly", "cleanup_queue"}
         /\ pc'[p] = "cleanup_queue"
                => pc[p] \in {"cleanup_queue", "cleanup_summarized"}]_vars

\* both cleanups have run: the marker of SrcA, written with its entry more
\* than 7 days ago, is gone, and a marker written within 7 days is there
C11_Witness ==
    \E p \in Proc :
        /\ pc[p] = "archive_monthly"
        /\ faults = 0
        /\ SrcA \in sources
        /\ ~is_summarized(SrcA)
        /\ \E r \in AllRecords : \E i \in DOMAIN r :
              r[i].k = "entry" /\ r[i].b = SrcA
        /\ is_summarized(SrcC)
        /\ Age(summarized[transcript_hash(SrcC)]) <= 7 * 86400
        /\ \A p2 \in Proc \ {p} : pc[p2] = "idle"

\* the processes that are executing the maintenance steps
InSteps == {p \in Proc : pc[p] \in MaintenancePc}

\* C12: on one day at most one invocation performs the maintenance steps:
\* no two processes are in the steps together, and once today's marker is
\* there no process is still in (or enters) the steps; an invocation that
\* finds the marker returns without a step.
C12_StepsOncePerDay ==
    /\ Cardinality(InSteps) <= 1
    /\ IsoFormat(today) \in maint => InSteps = {}

\* C13: the task the drain has taken is removed from the queue whatever
\* happened while it was processed, also when a write of its processing
\* failed: when the drain leaves (the process still running), the task it
\* took last is no longer in the queue, so the next drain does not find it
\* at the head again.
C13_TakenTaskIsRemoved ==
    \A p \in Proc :
        pc[p] = "unlock" => loc[p].task.name \notin DOMAIN queue

\* C14: every enqueue adds one pending task under a name no pending task
\* has: the number of pending tasks grows by one and every task that was
\* pending is still there, unchanged.
C14_EnqueueAddsOneTask ==
    [][\A p \in Proc :
         (pc[p] = "enqueue" /\ pc'[p] = "process_queue")
             => /\ Cardinality(DOMAIN queue') = Cardinality(DOMAIN queue) + 1
                /\ \A f \in DOMAIN queue :
                      f \in DOMAIN queue' /\ queue'[f] = queue[f]]_vars

\* C15: the drain processes the pending tasks in the order they were
\* enqueued: the name given to a task sorts after the name of every task
\* that is already pending, and the drain takes the task whose name sorts
\* first.
C15_DrainOldestFirst ==
    [][\A p \in Proc :
         /\ (pc[p] = "enqueue" /\ pc'[p] = "process_queue")
                => \A f \in DOMAIN queue \ {loc'[p].filename} :
                      TupleLess(f, loc'[p].filename)
         /\ (pc[p] = "get_pending_tasks" /\ pc'[p] = "process_task")
                => \A f \in DOMAIN queue \ {loc'[p].task.name} :
                      TupleLess(loc'[p].task.name, f)]_vars

\* C16: the gate is held only by a process that is inside the cycle it
\* took it for: a process that has left, by return, by an exception or by
\* being killed, does not hold it, so that another process can take it.
C16_GateReleasedOnExit ==
    /\ \A p \in Proc : lock = p <=> loc[p].locked
    /\ \A p \in Proc : pc[p] \in {"idle", "enqueue", "process_queue"}
                             => lock # p
    /\ (\A p \in Proc : pc[p] = "idle") => lock = 0

\* a write has failed after the entry was saved, the exception has left the
\* drain, and the gate is free
C16_Witness ==
    /\ \A p \in Proc : pc[p] = "idle"
    /\ lock = 0
    /\ faults = 1
    /\ queue # Empty
    /\ daily # Empty
    /\ summarized = Empty

\* C17: no failure of a step escapes: no exception ever propagates out of
\* the drain loop or the maintenance it calls towards the caller of the hook.
C17_NoFailureEscapes ==
    \A p \in Proc : ~loc[p].exc

\* the record r holds an entry for the transcript s
HasEntry(r, s) == \E i \in DOMAIN r : r[i].k = "entry" /\ r[i].b = s

\* C18: on a successful summary the entry is appended before the marker is
\* created: when process_task is about to mark, the entry is in today's
\* Daily Record; and every transcript marked by the success path has had
\* its entry written (it is in a record, or in a Daily Record since
\* removed), in every state, also after a crash.
C18_EntryBeforeMarker ==
    /\ \A p \in Proc :
          pc[p] = "mark_saved"
              => /\ IsoFormat(today) \in DOMAIN daily
                 /\ HasEntry(daily[IsoFormat(today)],
                             loc[p].task.transcript_path)
    /\ \A s \in DOMAIN resolved :
          resolved[s] = "saved" => \E r \in AllRecords : HasEntry(r, s)

\* a crash between the two steps: the entry is written, no marker was ever
\* created for the transcript
C18_Witness ==
    /\ \A p \in Proc : pc[p] = "idle"
    /\ faults = 1
    /\ \E s \in sources :
          /\ s \notin DOMAIN resolved
          /\ ~is_summarized(s)
          /\ IsoFormat(today) \in DOMAIN daily
          /\ HasEntry(daily[IsoFormat(today)], s)

\* C19: a transcript that has been marked is never processed again: no
\* trigger enqueues it, and no entry is written for it any more.
C19_ResolvedNeverReprocessed ==
    [][\A p \in Proc :
         /\ (pc[p] = "idle" /\ pc'[p] = "enqueue")
                => loc'[p].transcript_path \notin DOMAIN resolved
         /\ (pc[p] = "save_daily" /\ pc'[p] = "mark_saved")
                => loc[p].task.transcript_path \notin DOMAIN resolved]_vars

\* C20: when no process is running any more (and none has failed or been
\* killed), no task is pending whose writer lost the gate: the holder has
\* processed and removed it.
C20_LoserTaskNotLeftPending ==
    ((\A p \in Proc : pc[p] = "idle") /\ faults = 0)
        => lost \cap DOMAIN queue = {}

\* the Monday of the current week
ThisMonday == today - Weekday(today)

\* C21: once the maintenance of today has completed (no process having
\* failed or been killed), no Daily Record dated before the current week is
\* left in the daily area.
C21_NoOldDailyAfterMaintenance ==
    (IsoFormat(today) \in maint /\ faults = 0)
        => \A f \in DOMAIN daily : FromIso(f) >= ThisMonday

\* the process q is inside the cycle of drain and maintenance it took the
\* gate for
HoldsForCycle(q) ==
    /\ lock = q
    /\ loc[q].kind = "hook"
    /\ pc[q] \in DrainPc \cup MaintenancePc \cup {"monday_maintenance", "unlock"}

\* C22: the attempt of a trigger to take the gate fails only when another
\* process is inside the cycle of drain and maintenance; a status
\* inspection never makes it fail.
C22_GateLostOnlyToCycle ==
    [][\A p \in Proc :
         (pc[p] = "process_queue" /\ pc'[p] = "idle" /\ faults' = faults)
             => \E q \in Proc \ {p} : HoldsForCycle(q)]_vars

=============================================================================
